---- MODULE Spec2Model ----
(***************************************************************************)
(* Story-to-reel pipeline: story planning, image -> video asset chaining,  *)
(* reel assembly and caption generation, as two orchestrated programs:     *)
(*   program = "main"     : src/main.py      run_automation_pipeline       *)
(*   program = "pipeline" : src/pipeline.py  main                          *)
(***************************************************************************)
EXTENDS Integers, Sequences, FiniteSets, TLC

(***************************************************************************)
(* Bounds of the model                                                     *)
(***************************************************************************)
\* Largest number of scenes the language backend returns in one storyboard.
MaxScenes == 3

(***************************************************************************)
(* Program constants                                                       *)
(***************************************************************************)
\* Hard global ceiling of the accepted clips' total duration, in seconds.
GlobalCap == 120
\* Scene duration used by the pipeline.py assembler when the key is missing.
DefaultSceneDuration == 7

(***************************************************************************)
(* Python values                                                           *)
(***************************************************************************)
\* Python's None, the empty string, and "key not present in the dict".
None == "<None>"
EmptyStr == ""
Absent == "<absent>"

\* Locators the generative backend can hand out.
URLs == {"u1", "u2"}

\* Python truthiness of the values a URL slot can hold (`if not char_url`).
Falsy(x) == x \in {None, EmptyStr, Absent}

Min(a, b) == IF a <= b THEN a ELSE b

\* A Python value as the extraction code can tell it apart:
\*   py = "none"   : None
\*   py = "str"    : a string, url holds its text
\*   py = "dict"   : a mapping, url holds .get("url") (None when the key is missing)
\*   py = "handle" : an object with a url attribute (replicate FileOutput)
\*   py = "other"  : anything else (an int, an iterator), no url attribute
\*   py = "list"   : a list, items holds its elements
PyNone == [py |-> "none", url |-> None, items |-> <<>>]
PyStr(s) == [py |-> "str", url |-> s, items |-> <<>>]
PyDict(u) == [py |-> "dict", url |-> u, items |-> <<>>]
PyHandle(u) == [py |-> "handle", url |-> u, items |-> <<>>]
PyOther == [py |-> "other", url |-> None, items |-> <<>>]
PyList(xs) == [py |-> "list", url |-> None, items |-> xs]

IsInstanceStr(x) == x.py = "str"
IsInstanceDict(x) == x.py = "dict"
IsInstanceList(x) == x.py = "list"
HasAttrUrl(x) == x.py = "handle"

\* The single items a backend can return.
Items ==
  {PyStr(s) : s \in URLs \cup {EmptyStr}}
    \cup {PyDict(u) : u \in URLs \cup {EmptyStr, None}}
    \cup {PyHandle(u) : u \in URLs \cup {EmptyStr, None}}
    \cup {PyOther}

\* What may follow the first element of a returned list.
LaterItems == {PyStr("u2"), PyOther}

\* Everything replicate.run can return: None, one bare item, or a list.
BackendOutputs ==
  {PyNone} \cup Items \cup {PyList(<<>>)}
    \cup {PyList(<<x>>) : x \in Items \cup {PyNone}}
    \cup {PyList(<<x, y>>) : x \in Items \cup {PyNone}, y \in LaterItems}

(***************************************************************************)
(* External Media Gateway: APIClient.run_model                             *)
(***************************************************************************)
\* The value of a result variable before its call was made.
NoResult == [type |-> "unset", output |-> PyNone]

\* run_model wraps whatever the backend returned as {'output': output}.
RunModel(output) == [type |-> "dict", output |-> output]

(***************************************************************************)
(* Asset Chainer: normalisation and URL extraction, image step             *)
(***************************************************************************)
CharRawOutputList(char_output) ==
  IF char_output.type = "dict"
  THEN LET raw_output == char_output.output IN
         IF raw_output.py = "none" THEN <<>>
         ELSE IF ~IsInstanceList(raw_output) THEN <<raw_output>>
         ELSE raw_output.items
  ELSE IF char_output.type = "list"
  THEN char_output.output.items
  ELSE IF HasAttrUrl(char_output.output) THEN <<char_output.output>> ELSE <<>>

\* CharUrl without the branch for objects that expose a url attribute.
CharUrlNoHandle(raw_output_list) ==
  IF raw_output_list # <<>>
  THEN LET first_output == raw_output_list[1] IN
         IF IsInstanceStr(first_output) THEN first_output.url
         ELSE IF IsInstanceDict(first_output) THEN first_output.url
         ELSE None
  ELSE None

CharUrl(raw_output_list) ==
  IF raw_output_list # <<>>
  THEN LET first_output == raw_output_list[1] IN
         IF IsInstanceStr(first_output) THEN first_output.url
         ELSE IF IsInstanceDict(first_output) THEN first_output.url
         ELSE IF HasAttrUrl(first_output) THEN first_output.url
         ELSE None
  ELSE None

(***************************************************************************)
(* Asset Chainer: normalisation and URL extraction, video step             *)
(***************************************************************************)
RawVideoList(clip_output) ==
  IF clip_output.type = "dict"
  THEN LET raw_video_output == clip_output.output IN
         IF raw_video_output.py = "none" THEN <<>>
         ELSE IF ~IsInstanceList(raw_video_output) THEN <<raw_video_output>>
         ELSE raw_video_output.items
  ELSE IF clip_output.type = "list"
  THEN clip_output.output.items
  ELSE IF HasAttrUrl(clip_output.output) THEN <<clip_output.output>> ELSE <<>>

\* FinalVideoUrl that looks for the first element of the list with a URL.
RECURSIVE FinalVideoUrlAnyElement(_)
FinalVideoUrlAnyElement(raw_video_list) ==
  IF raw_video_list = <<>> THEN None
  ELSE LET first_output == raw_video_list[1]
           url == IF IsInstanceStr(first_output) \/ IsInstanceDict(first_output)
                       \/ HasAttrUrl(first_output)
                  THEN first_output.url ELSE None
       IN IF Falsy(url) THEN FinalVideoUrlAnyElement(Tail(raw_video_list)) ELSE url

FinalVideoUrl(raw_video_list) ==
  IF raw_video_list # <<>>
  THEN LET first_output == raw_video_list[1] IN
         IF IsInstanceStr(first_output) THEN first_output.url
         ELSE IF IsInstanceDict(first_output) THEN first_output.url
         ELSE IF HasAttrUrl(first_output) THEN first_output.url
         ELSE None
  ELSE None

(***************************************************************************)
(* Configuration, inputs drawn from the environment                        *)
(***************************************************************************)
Themes == {"Lost City"}

\* config.json of main.py: VIDEO_CONFIG limits, in seconds.
MainConfigs ==
  { [max_duration_per_scene_seconds |-> 5, total_reel_duration_seconds |-> 12,
     has_scene_duration |-> FALSE, scene_duration_seconds |-> 0],
    [max_duration_per_scene_seconds |-> 60, total_reel_duration_seconds |-> 200,
     has_scene_duration |-> FALSE, scene_duration_seconds |-> 0],
    [max_duration_per_scene_seconds |-> 130, total_reel_duration_seconds |-> 100,
     has_scene_duration |-> FALSE, scene_duration_seconds |-> 0] }

\* config/config.yaml of pipeline.py: scene_duration_seconds may be missing.
PipelineConfigs ==
  { [max_duration_per_scene_seconds |-> 0, total_reel_duration_seconds |-> 0,
     has_scene_duration |-> FALSE, scene_duration_seconds |-> 0, num_scenes |-> 2],
    [max_duration_per_scene_seconds |-> 0, total_reel_duration_seconds |-> 0,
     has_scene_duration |-> TRUE, scene_duration_seconds |-> 5, num_scenes |-> 2] }

\* The process environment: which credentials are set (and not empty).
\* pipeline.py never reads REPLICATE_API_TOKEN.
Environments(prog) ==
  IF prog = "main"
  THEN [REPLICATE_API_TOKEN : BOOLEAN, GEMINI_API_KEY : BOOLEAN]
  ELSE [REPLICATE_API_TOKEN : {FALSE}, GEMINI_API_KEY : BOOLEAN]

\* Durations, in seconds, of the media files the backend delivers.
RawDurations == {5, 130}

\* A scene as the language backend returns it: no derived fields yet.
NewScene(k, desc) ==
  [scene_title |-> k, character_image_url |-> Absent, video_url |-> Absent,
   description |-> desc]

NewScenes(n, desc) == [k \in 1..n |-> NewScene(k, desc)]

\* What the language backend answers to the storyboard request:
\*   kind = "raise"   : the call itself fails
\*   kind = "badjson" : the text does not parse as JSON
\*   kind = "json"    : parsed; list = "missing" | "notlist" | "list" of n scenes
StoryResponses ==
  { [kind |-> "raise", list |-> "missing", n |-> 0, title |-> FALSE, desc |-> Absent],
    [kind |-> "badjson", list |-> "missing", n |-> 0, title |-> FALSE, desc |-> Absent] }
    \cup { [kind |-> "json", list |-> l, n |-> 0, title |-> t, desc |-> Absent] :
             l \in {"missing", "notlist"}, t \in BOOLEAN }
    \cup { [kind |-> "json", list |-> "list", n |-> n, title |-> t, desc |-> d] :
             n \in 0..MaxScenes, t \in BOOLEAN, d \in {Absent, "text"} }

\* Texts the language backend answers to the caption request, as token
\* sequences (a token is a quote, a blank or a run of other characters).
CaptionTexts ==
  { <<"Watch this">>, <<"\"", "Watch this", "\"">>, <<" ", "'", "Watch this", "'">> }

\* kind = "raise"   : the call itself fails
\* kind = "notext"  : the response carries no text (response.text is None)
\* kind = "badjson" : a text that is not JSON
\* kind = "text"    : a text (for pipeline.py: one that parses as JSON)
CaptionResponses ==
  { [kind |-> k, text |-> <<>>] : k \in {"raise", "notext"} }
    \cup { [kind |-> k, text |-> t] : k \in {"badjson", "text"}, t \in CaptionTexts }

\* Outcome of loading one clip file: failure, or a clip of some duration.
LoadOutcomes ==
  { [ok |-> FALSE, duration |-> 0] } \cup { [ok |-> TRUE, duration |-> d] : d \in RawDurations }

\* Outcome of VideoFileClip(path).resize(...).subclip(...): the clip did not
\* open, it opened and resize or subclip raised, or it opened and was cut.
ClipOutcomes ==
  { [opened |-> FALSE, ok |-> FALSE, duration |-> 0],
    [opened |-> TRUE, ok |-> FALSE, duration |-> 0] }
    \cup { [opened |-> TRUE, ok |-> TRUE, duration |-> d] : d \in RawDurations }

\* An outbound call to a backend, as the program issues it: the storyboard
\* request (with the number of scenes it asks for), the caption request, and
\* the image, video or clip request of a scene.
StoryCall(n) == [kind |-> "story", scene |-> 0, num_scenes |-> n]
CaptionCall == [kind |-> "caption", scene |-> 0, num_scenes |-> 0]
SceneCall(kind, k) == [kind |-> kind, scene |-> k, num_scenes |-> 0]

(***************************************************************************)
(* State                                                                   *)
(***************************************************************************)
VARIABLES
  program,        \* which orchestrator runs: "main" or "pipeline"
  cfg,            \* the configuration
  env,            \* the credentials of the process environment
  pc,             \* position of the orchestrator
  theme,          \* story_data['theme']
  has_title,      \* pipeline.py: story_data has a 'title' key
  story_calls,    \* storyboard requests sent to the language backend
  scenes,         \* story_data['scenes']
  num_scenes,     \* story_data['num_scenes'], set by generate_story_data
  i,              \* index of the running per-scene loop (1-based)
  char_output,    \* result of the image call of the current scene
  clip_output,    \* result of the video call of the current scene
  clip_paths,     \* pipeline.py: final_clip_paths
  attempted,      \* scenes whose clip download_file was called for, in call order
  final_clips,    \* accepted clips, [scene, duration]
  total_duration, \* running total of combine_and_finalize_reel
  reel_duration,  \* duration of the rendered reel (0 before rendering)
  overlays,       \* pipeline.py: narration overlays, [scene, start, duration]
  file_written,   \* the final reel file exists
  clips_open,     \* some clip the assembler opened has not been closed
  calls,          \* backend calls issued so far, in order
  caption,        \* reel_caption / caption_data
  error,          \* what ended the run early, or "none"
  reports         \* failure reports printed by the orchestrator

vars ==
  << program, cfg, env, pc, theme, has_title, story_calls, scenes, num_scenes, i,
     char_output, clip_output, clip_paths, attempted, final_clips,
     total_duration, reel_duration, overlays, file_written, clips_open, calls,
     caption, error, reports >>

configVars == << program, cfg, theme, env >>
storyVars == << has_title, story_calls, scenes, num_scenes >>
chainVars == << char_output, clip_output >>
reelVars ==
  << clip_paths, attempted, final_clips, total_duration, reel_duration, overlays,
     file_written, clips_open >>
failVars == << error, reports >>

NoCaption == [source |-> "none", text |-> <<>>, hashtags |-> <<>>]

Init ==
  /\ program \in {"main", "pipeline"}
  /\ cfg \in (IF program = "main" THEN MainConfigs ELSE PipelineConfigs)
  /\ env \in Environments(program)
  /\ pc = (IF program = "main" THEN "init" ELSE "p_init")
  /\ theme \in Themes
  /\ has_title = FALSE
  /\ story_calls = 0
  /\ scenes = <<>>
  /\ num_scenes = 0
  /\ i = 1
  /\ char_output = NoResult
  /\ clip_output = NoResult
  /\ clip_paths = <<>>
  /\ attempted = <<>>
  /\ final_clips = <<>>
  /\ total_duration = 0
  /\ reel_duration = 0
  /\ overlays = <<>>
  /\ file_written = FALSE
  /\ clips_open = FALSE
  /\ calls = <<>>
  /\ caption = NoCaption
  /\ error = "none"
  /\ reports = 0

\* What can end a run early, by the stage it comes from.
InitErrors == {"no_key", "no_token"}
PlanningErrors == {"plan_call", "plan_parse", "plan_invalid"}
ChainErrors == {"gateway"}
SceneErrors == {"scene"}
AssemblyErrors == {"no_clips", "overlay", "render"}
CaptionErrors == {"caption"}

\* The run ends early: the orchestrator prints one report and stops.
Fatal(cause) ==
  /\ pc' = "failed"
  /\ error' = cause
  /\ reports' = reports + 1

(***************************************************************************)
(* Initialization (main.py): module-level GEMINI_CLIENT and APIClient()    *)
(***************************************************************************)
\* if not GEMINI_API_KEY: raise ValueError, re-raised out of the import
GeminiClientInit(e) == e.GEMINI_API_KEY

\* The constructor's check, left out.
APIClientInitUnchecked(e) == TRUE

\* if not REPLICATE_API_TOKEN: raise ValueError
APIClientInit(e) == e.REPLICATE_API_TOKEN

\* main.py imports the storyboard module first (a missing key ends the
\* process there, with the printed message and the traceback), then
\* run_automation_pipeline builds the APIClient (a missing token is printed
\* as "Initialization Failed" and the function returns).
Initialize ==
  /\ program = "main"
  /\ pc = "init"
  /\ IF ~GeminiClientInit(env) THEN Fatal("no_key")
     ELSE IF ~APIClientInit(env) THEN Fatal("no_token")
     ELSE pc' = "plan" /\ UNCHANGED failVars
  /\ UNCHANGED << configVars, storyVars, i, chainVars, reelVars, calls, caption >>

(***************************************************************************)
(* Initialization (pipeline.py): get_gemini_client                         *)
(***************************************************************************)
\* if not GEMINI_KEY: raise ValueError, caught by main's except Exception
GetGeminiClient ==
  /\ program = "pipeline"
  /\ pc = "p_init"
  /\ IF ~env.GEMINI_API_KEY THEN Fatal("no_key")
     ELSE pc' = "p_plan" /\ UNCHANGED failVars
  /\ UNCHANGED << configVars, storyVars, i, chainVars, reelVars, calls, caption >>

(***************************************************************************)
(* Story Planner (main.py): generate_story_data                            *)
(***************************************************************************)
\* The quotient rounded up instead of down.
NumScenesRoundedUp(c) ==
  (c.total_reel_duration_seconds + c.max_duration_per_scene_seconds - 1)
    \div c.max_duration_per_scene_seconds

\* num_scenes = total_reel_duration_seconds // max_duration_per_scene_seconds
NumScenes(c) == c.total_reel_duration_seconds \div c.max_duration_per_scene_seconds

\* The validation chain on story_data.get('storyboard'): the first two
\* branches accept the list, the last one raises.
StoryboardAccepted(resp, requested) ==
  IF resp.list = "list" /\ resp.n = requested THEN TRUE
  ELSE IF resp.list = "list" /\ resp.n > 0 THEN TRUE
  ELSE FALSE

\* generate_story_data with a retry loop: an unparseable text sends the
\* request again, up to three requests.
GenerateStoryDataRetrying ==
  /\ program = "main"
  /\ pc = "plan"
  /\ calls' = Append(calls, StoryCall(NumScenes(cfg)))
  /\ \E resp \in StoryResponses :
       /\ story_calls' = story_calls + 1
       /\ IF resp.kind = "raise"
          THEN Fatal("plan_call") /\ UNCHANGED << scenes, num_scenes >>
          ELSE IF resp.kind = "badjson"
          THEN IF story_calls + 1 < 3
               THEN UNCHANGED << pc, failVars, scenes, num_scenes >>
               ELSE Fatal("plan_parse") /\ UNCHANGED << scenes, num_scenes >>
          ELSE IF ~StoryboardAccepted(resp, NumScenes(cfg))
          THEN Fatal("plan_invalid") /\ UNCHANGED << scenes, num_scenes >>
          ELSE /\ scenes' = NewScenes(resp.n, "text")
               /\ num_scenes' = resp.n
               /\ pc' = "caption"
               /\ UNCHANGED failVars
  /\ UNCHANGED << configVars, has_title, i, chainVars, reelVars, caption >>

\* One request, no retry: a failed call, an unparseable text or a rejected
\* storyboard is re-raised to the orchestrator.
GenerateStoryData ==
  /\ program = "main"
  /\ pc = "plan"
  /\ calls' = Append(calls, StoryCall(NumScenes(cfg)))
  /\ \E resp \in StoryResponses :
       /\ story_calls' = story_calls + 1
       /\ IF resp.kind = "raise"
          THEN Fatal("plan_call") /\ UNCHANGED << scenes, num_scenes >>
          ELSE IF resp.kind = "badjson"
          THEN Fatal("plan_parse") /\ UNCHANGED << scenes, num_scenes >>
          ELSE IF ~StoryboardAccepted(resp, NumScenes(cfg))
          THEN Fatal("plan_invalid") /\ UNCHANGED << scenes, num_scenes >>
          ELSE /\ scenes' = NewScenes(resp.n, "text")
               /\ num_scenes' = resp.n
               /\ pc' = "caption"
               /\ UNCHANGED failVars
  /\ UNCHANGED << configVars, has_title, i, chainVars, reelVars, caption >>

(***************************************************************************)
(* Caption Generator (main.py): generate_caption                           *)
(***************************************************************************)
RECURSIVE LStrip(_, _)
LStrip(text, chars) ==
  IF text # <<>> /\ text[1] \in chars THEN LStrip(Tail(text), chars) ELSE text

RECURSIVE RStrip(_, _)
RStrip(text, chars) ==
  IF text # <<>> /\ text[Len(text)] \in chars
  THEN RStrip(SubSeq(text, 1, Len(text) - 1), chars)
  ELSE text

\* str.strip(chars) on a token sequence.
Strip(text, chars) == RStrip(LStrip(text, chars), chars)

Whitespace == {" "}

\* caption_output.text.strip(), then .strip().strip('"').strip("'")
CleanCaption(text) ==
  Strip(Strip(Strip(Strip(text, Whitespace), Whitespace), {"\""}), {"'"})

\* f"An AI Reel about {story_data['theme']}. #AI #GenAI"
FallbackCaption(th) ==
  [source |-> "fallback",
   text |-> <<"An AI Reel about ", th, ". ", "#AI", " ", "#GenAI">>,
   hashtags |-> <<>>]

\* The whole body runs under try/except Exception: a failed call or a
\* response without text falls back; any text is taken as the caption.
CaptionOf(resp, th) ==
  IF resp.kind \in {"raise", "notext"}
  THEN FallbackCaption(th)
  ELSE [source |-> "backend", text |-> CleanCaption(resp.text), hashtags |-> <<>>]

GenerateCaption ==
  /\ program = "main"
  /\ pc = "caption"
  /\ \E resp \in CaptionResponses : caption' = CaptionOf(resp, theme)
  /\ calls' = Append(calls, CaptionCall)
  /\ pc' = "chain"
  /\ i' = 1
  /\ UNCHANGED << configVars, storyVars, chainVars, reelVars, failVars >>

(***************************************************************************)
(* Asset Chainer (main.py): generate_and_chain_media                       *)
(***************************************************************************)
\* ImageCall over the scenes taken from the last to the first.
ImageCallReversed ==
  /\ pc = "chain"
  /\ i <= Len(scenes)
  /\ \E out \in BackendOutputs : char_output' = RunModel(out)
  /\ clip_output' = NoResult
  /\ calls' = Append(calls, SceneCall("image", Len(scenes) + 1 - i))
  /\ pc' = "img_extract"
  /\ UNCHANGED << configVars, storyVars, i, reelVars, caption, failVars >>

\* 2a: the image call of scene i returned. The clip_output of the previous
\* scene is never read again, so it is forgotten here.
ImageCall ==
  /\ pc = "chain"
  /\ i <= Len(scenes)
  /\ \E out \in BackendOutputs : char_output' = RunModel(out)
  /\ clip_output' = NoResult
  /\ calls' = Append(calls, SceneCall("image", i))
  /\ pc' = "img_extract"
  /\ UNCHANGED << configVars, storyVars, i, reelVars, caption, failVars >>

\* ImageExtract without the `if not char_url: continue` guard.
ImageExtractNoSkip ==
  /\ pc = "img_extract"
  /\ scenes' =
       [scenes EXCEPT ![i].character_image_url = CharUrl(CharRawOutputList(char_output))]
  /\ char_output' = NoResult
  /\ pc' = "vid_call"
  /\ UNCHANGED << configVars, has_title, story_calls, num_scenes, i, clip_output,
                  reelVars, calls, caption, failVars >>

\* ImageExtract that goes on to the video call when no image URL was found.
ImageExtractVideoAnyway ==
  /\ pc = "img_extract"
  /\ LET char_url == CharUrl(CharRawOutputList(char_output)) IN
       IF Falsy(char_url)
       THEN UNCHANGED scenes
       ELSE scenes' = [scenes EXCEPT ![i].character_image_url = char_url]
  /\ char_output' = NoResult
  /\ pc' = "vid_call"
  /\ UNCHANGED << configVars, has_title, story_calls, num_scenes, i, clip_output,
                  reelVars, calls, caption, failVars >>

\* Extraction of the image URL: no URL skips the scene, a URL is stored.
\* From here on only char_url is read (it goes into the video request), no
\* longer char_output, so a stored URL lets the result be forgotten.
ImageExtract ==
  /\ pc = "img_extract"
  /\ LET char_url == CharUrl(CharRawOutputList(char_output)) IN
       IF Falsy(char_url)
       THEN /\ i' = i + 1
            /\ pc' = "chain"
            /\ UNCHANGED << scenes, char_output >>
       ELSE /\ scenes' = [scenes EXCEPT ![i].character_image_url = char_url]
            /\ char_output' = NoResult
            /\ pc' = "vid_call"
            /\ UNCHANGED i
  /\ UNCHANGED << configVars, has_title, story_calls, num_scenes, clip_output,
                  reelVars, calls, caption, failVars >>

\* 2b: the video call of scene i returned.
VideoCall ==
  /\ pc = "vid_call"
  /\ \E out \in BackendOutputs : clip_output' = RunModel(out)
  /\ UNCHANGED char_output
  /\ calls' = Append(calls, SceneCall("video", i))
  /\ pc' = "vid_extract"
  /\ UNCHANGED << configVars, storyVars, i, reelVars, caption, failVars >>

\* VideoExtract that leaves video_url as it was when no URL was found.
VideoExtractLeavesUnset ==
  /\ pc = "vid_extract"
  /\ LET final_video_url == FinalVideoUrl(RawVideoList(clip_output)) IN
       IF Falsy(final_video_url)
       THEN UNCHANGED scenes
       ELSE scenes' = [scenes EXCEPT ![i].video_url = final_video_url]
  /\ i' = i + 1
  /\ pc' = "chain"
  /\ UNCHANGED << configVars, has_title, story_calls, num_scenes, chainVars,
                  reelVars, calls, caption, failVars >>

\* Extraction of the video URL: no URL stores None, a URL is stored.
VideoExtract ==
  /\ pc = "vid_extract"
  /\ LET final_video_url == FinalVideoUrl(RawVideoList(clip_output)) IN
       IF Falsy(final_video_url)
       THEN scenes' = [scenes EXCEPT ![i].video_url = None]
       ELSE scenes' = [scenes EXCEPT ![i].video_url = final_video_url]
  /\ i' = i + 1
  /\ pc' = "chain"
  /\ UNCHANGED << configVars, has_title, story_calls, num_scenes, chainVars,
                  reelVars, calls, caption, failVars >>

\* GatewayError caught at the scene boundary: reported, next scene.
GatewayErrorSkipsScene ==
  /\ \/ pc = "chain" /\ i <= Len(scenes) /\ calls' = Append(calls, SceneCall("image", i))
     \/ pc = "vid_call" /\ calls' = Append(calls, SceneCall("video", i))
  /\ pc' = "chain"
  /\ i' = i + 1
  /\ error' = "gateway"
  /\ reports' = reports + 1
  /\ UNCHANGED << configVars, storyVars, chainVars, reelVars, caption >>

\* run_model re-raises what the backend raised; the chainer has no handler,
\* so the exception ends the loop and reaches the orchestrator.
GatewayError ==
  /\ \/ pc = "chain" /\ i <= Len(scenes) /\ calls' = Append(calls, SceneCall("image", i))
     \/ pc = "vid_call" /\ calls' = Append(calls, SceneCall("video", i))
  /\ Fatal("gateway")
  /\ UNCHANGED << configVars, storyVars, i, chainVars, reelVars, caption >>

\* The loop is over: return story_data.
ChainReturn ==
  /\ pc = "chain"
  /\ i > Len(scenes)
  /\ pc' = "assemble"
  /\ i' = 1
  /\ char_output' = NoResult
  /\ clip_output' = NoResult
  /\ UNCHANGED << configVars, storyVars, reelVars, calls, caption, failVars >>

(***************************************************************************)
(* Reel Assembler (main.py): combine_and_finalize_reel                     *)
(***************************************************************************)
RECURSIVE SumDurations(_)
SumDurations(clips) ==
  IF clips = <<>> THEN 0 ELSE clips[1].duration + SumDurations(Tail(clips))

\* clip.subclip(0, max_duration_per_scene_seconds): at most that long. (A
\* moviepy that rejects an end past the clip's end is the failed-load
\* outcome; one that stretches the duration to the end given is the outcome
\* of a file at least that long.)
Subclip(raw_duration, max_duration) == Min(raw_duration, max_duration)

\* The cap test with >= for >.
ExceedsGlobalCapAtCap(total) == total >= GlobalCap

\* if total_duration > 120
ExceedsGlobalCap(total) == total > GlobalCap

\* The final cut left out.
FinalReelDurationNoCut(concatenated, target_duration) == concatenated

\* if final_reel.duration > target_duration: final_reel.subclip(0, target_duration)
FinalReelDuration(concatenated, target_duration) ==
  IF concatenated > target_duration THEN target_duration ELSE concatenated

\* The filter with the check left out.
MissingVideoUrlUnchecked(scene) == FALSE

\* video_url = scene.get('video_url'); if not video_url: skip the scene
MissingVideoUrl(scene) == Falsy(scene.video_url)

\* AssembleScene with a failed download or load raised to the caller.
AssembleSceneAbortsOnFailure ==
  /\ pc = "assemble"
  /\ i <= Len(scenes)
  /\ IF MissingVideoUrl(scenes[i])
       THEN /\ i' = i + 1
            /\ UNCHANGED << pc, attempted, final_clips, total_duration, clips_open,
                            failVars >>
       ELSE /\ attempted' = Append(attempted, i)
            /\ \E download_ok \in BOOLEAN, load \in ClipOutcomes :
                 IF ~download_ok
                 THEN /\ Fatal("scene")
                      /\ UNCHANGED << i, final_clips, total_duration, clips_open >>
                 ELSE IF ~load.ok
                 THEN /\ Fatal("scene")
                      /\ clips_open' = (clips_open \/ load.opened)
                      /\ UNCHANGED << i, final_clips, total_duration >>
                 ELSE LET duration ==
                            Subclip(load.duration, cfg.max_duration_per_scene_seconds)
                      IN /\ total_duration' = total_duration + duration
                         /\ clips_open' = TRUE
                         /\ UNCHANGED failVars
                         /\ IF ExceedsGlobalCap(total_duration + duration)
                            THEN /\ pc' = "finalize"
                                 /\ UNCHANGED << i, final_clips >>
                            ELSE /\ final_clips' =
                                      Append(final_clips,
                                             [scene |-> i, duration |-> duration])
                                 /\ i' = i + 1
                                 /\ UNCHANGED pc
  /\ UNCHANGED << configVars, storyVars, chainVars, clip_paths, reel_duration,
                  overlays, file_written, calls, caption >>

\* One iteration of the scene loop: a missing video_url, a failed download
\* and a failed load/resize/subclip each skip the scene; a loaded clip is
\* added to the running total and kept unless the total passed the cap,
\* in which case it is popped and the loop is left. No path closes a clip.
AssembleScene ==
  /\ pc = "assemble"
  /\ i <= Len(scenes)
  /\ IF MissingVideoUrl(scenes[i])
       THEN /\ i' = i + 1
            /\ UNCHANGED << pc, attempted, final_clips, total_duration, clips_open >>
       ELSE /\ attempted' = Append(attempted, i)
            /\ \E download_ok \in BOOLEAN, load \in ClipOutcomes :
                 IF ~download_ok
                 THEN /\ i' = i + 1
                      /\ UNCHANGED << pc, final_clips, total_duration, clips_open >>
                 ELSE IF ~load.ok
                 THEN /\ i' = i + 1
                      /\ clips_open' = (clips_open \/ load.opened)
                      /\ UNCHANGED << pc, final_clips, total_duration >>
                 ELSE LET duration ==
                            Subclip(load.duration, cfg.max_duration_per_scene_seconds)
                      IN /\ total_duration' = total_duration + duration
                         /\ clips_open' = TRUE
                         /\ IF ExceedsGlobalCap(total_duration + duration)
                            THEN /\ pc' = "finalize"
                                 /\ UNCHANGED << i, final_clips >>
                            ELSE /\ final_clips' =
                                      Append(final_clips,
                                             [scene |-> i, duration |-> duration])
                                 /\ i' = i + 1
                                 /\ UNCHANGED pc
  /\ UNCHANGED << configVars, storyVars, chainVars, clip_paths, reel_duration,
                  overlays, file_written, calls, caption, failVars >>

\* The scene loop ran to its end.
AssembleLoopEnd ==
  /\ pc = "assemble"
  /\ i > Len(scenes)
  /\ pc' = "finalize"
  /\ UNCHANGED << configVars, storyVars, i, chainVars, reelVars, calls, caption,
                  failVars >>

\* FinalizeReel without the `if not final_clips: raise` check.
FinalizeReelNoEmptyCheck ==
  /\ pc = "finalize"
  /\ reel_duration' =
       FinalReelDuration(SumDurations(final_clips), cfg.total_reel_duration_seconds)
  /\ file_written' = TRUE
  /\ pc' = "done"
  /\ UNCHANGED << configVars, storyVars, i, chainVars, clip_paths, attempted,
                  final_clips, total_duration, overlays, clips_open, calls, caption,
                  failVars >>

\* After the loop: no clip raises; otherwise concatenate, cut to the target
\* duration and write the file. concatenate_videoclips or write_videofile
\* may raise: before the encoder created the file, or after it started
\* writing it, and nothing removes what it wrote. No path closes a clip.
FinalizeReel ==
  /\ pc = "finalize"
  /\ IF final_clips = <<>>
     THEN /\ Fatal("no_clips")
          /\ UNCHANGED << reel_duration, file_written >>
     ELSE \E render_ok \in BOOLEAN :
            IF render_ok
            THEN /\ reel_duration' =
                      FinalReelDuration(SumDurations(final_clips),
                                        cfg.total_reel_duration_seconds)
                 /\ file_written' = TRUE
                 /\ pc' = "done"
                 /\ UNCHANGED failVars
            ELSE /\ Fatal("render")
                 /\ file_written' \in BOOLEAN
                 /\ UNCHANGED reel_duration
  /\ UNCHANGED << configVars, storyVars, i, chainVars, clip_paths, attempted,
                  final_clips, total_duration, overlays, clips_open, calls, caption >>

(***************************************************************************)
(* Story Planner (pipeline.py): generate_story_json and the caller's check *)
(***************************************************************************)
\* json.loads under try/except JSONDecodeError: an unparseable text gives None.
StoryJson(resp) == IF resp.kind = "badjson" THEN "None" ELSE "data"

\* main's check: if not story_data or not story_data.get('scenes')
StoryUsable(resp) ==
  /\ StoryJson(resp) # "None"
  /\ \/ resp.list = "notlist"
     \/ resp.list = "list" /\ resp.n > 0

\* One request, no retry. The call is outside the try: its failure raises.
\* A story the caller cannot use ends the run with a printed message. A
\* 'scenes' value that is not a list of scenes raises at the first scene.
GenerateStoryJson ==
  /\ program = "pipeline"
  /\ pc = "p_plan"
  /\ calls' = Append(calls, StoryCall(cfg.num_scenes))
  /\ \E resp \in StoryResponses :
       /\ story_calls' = story_calls + 1
       /\ IF resp.kind = "raise"
          THEN Fatal("plan_call") /\ UNCHANGED << scenes, has_title >>
          ELSE IF resp.kind = "badjson"
          THEN Fatal("plan_parse") /\ UNCHANGED << scenes, has_title >>
          ELSE IF ~StoryUsable(resp)
          THEN Fatal("plan_invalid") /\ UNCHANGED << scenes, has_title >>
          ELSE IF resp.list = "notlist"
          THEN Fatal("scene") /\ has_title' = resp.title /\ UNCHANGED scenes
          ELSE /\ scenes' = NewScenes(resp.n, resp.desc)
               /\ has_title' = resp.title
               /\ pc' = "p_scenes"
               /\ UNCHANGED failVars
  /\ UNCHANGED << configVars, num_scenes, i, chainVars, reelVars, caption >>

(***************************************************************************)
(* Per-scene generation (pipeline.py): generate_scene_image and            *)
(* generate_dynamic_video_clip, called without a handler in the loop       *)
(***************************************************************************)
\* The two callees are not among the sources; what is modelled is their
\* contract: a clip path for the scene, or an exception, which the loop of
\* pipeline.py does not catch.
GenerateSceneClip ==
  /\ pc = "p_scenes"
  /\ i <= Len(scenes)
  /\ calls' = Append(calls, SceneCall("image", i))
  /\ \E made \in BOOLEAN :
       IF made
       THEN /\ clip_paths' = Append(clip_paths, i)
            /\ i' = i + 1
            /\ UNCHANGED << pc, failVars >>
       ELSE /\ Fatal("scene")
            /\ UNCHANGED << clip_paths, i >>
  /\ UNCHANGED << configVars, storyVars, chainVars, attempted, final_clips,
                  total_duration, reel_duration, overlays, file_written, clips_open,
                  caption >>

ScenesDone ==
  /\ pc = "p_scenes"
  /\ i > Len(scenes)
  /\ pc' = "p_assemble"
  /\ UNCHANGED << configVars, storyVars, i, chainVars, reelVars, calls, caption,
                  failVars >>

(***************************************************************************)
(* Reel Assembler (pipeline.py): assemble_final_reel                       *)
(***************************************************************************)
Max(a, b) == IF a >= b THEN a ELSE b

\* The clips that loaded, in the order of clip_paths; a failed load is skipped.
RECURSIVE LoadedClips(_, _, _)
LoadedClips(paths, loads, k) ==
  IF k > Len(paths) THEN <<>>
  ELSE IF loads[k].ok
  THEN <<[scene |-> paths[k], duration |-> loads[k].duration]>>
         \o LoadedClips(paths, loads, k + 1)
  ELSE LoadedClips(paths, loads, k + 1)

\* config.get('scene_duration_seconds', 7)
SceneDuration(c) ==
  IF c.has_scene_duration THEN c.scene_duration_seconds ELSE DefaultSceneDuration

\* One text overlay per scene of story_data['scenes'], each of the configured
\* scene duration, starting where the previous overlay ended.
NarrationOverlays(scs, c) ==
  [k \in 1..Len(scs) |->
     [scene |-> k, start |-> (k - 1) * SceneDuration(c), duration |-> SceneDuration(c)]]

\* A CompositeVideoClip lasts until its last layer ends.
CompositeDuration(clips, ovs) ==
  Max(SumDurations(clips),
      IF ovs = <<>> THEN 0 ELSE ovs[Len(ovs)].start + ovs[Len(ovs)].duration)

\* The whole handler: load every path, raise when nothing loaded, concatenate,
\* overlay scene['description'] (a scene without that key raises), write
\* (a failed write may leave what the encoder wrote), and close the loaded
\* clips, which only the path that wrote the file reaches.
AssembleFinalReel ==
  /\ pc = "p_assemble"
  /\ \E loads \in [1..Len(clip_paths) -> LoadOutcomes], render_ok \in BOOLEAN :
       LET all_clips == LoadedClips(clip_paths, loads, 1) IN
         /\ final_clips' = all_clips
         /\ IF all_clips = <<>>
            THEN /\ Fatal("no_clips")
                 /\ UNCHANGED << overlays, reel_duration, file_written, clips_open >>
            ELSE IF \E k \in 1..Len(scenes) : scenes[k].description = Absent
            THEN /\ Fatal("overlay")
                 /\ clips_open' = TRUE
                 /\ UNCHANGED << overlays, reel_duration, file_written >>
            ELSE IF ~render_ok
            THEN /\ Fatal("render")
                 /\ overlays' = NarrationOverlays(scenes, cfg)
                 /\ clips_open' = TRUE
                 /\ file_written' \in BOOLEAN
                 /\ UNCHANGED reel_duration
            ELSE /\ overlays' = NarrationOverlays(scenes, cfg)
                 /\ reel_duration' =
                      CompositeDuration(all_clips, NarrationOverlays(scenes, cfg))
                 /\ file_written' = TRUE
                 /\ clips_open' = FALSE
                 /\ pc' = "p_caption"
                 /\ UNCHANGED failVars
  /\ UNCHANGED << configVars, storyVars, i, chainVars, clip_paths, attempted,
                  total_duration, calls, caption >>

(***************************************************************************)
(* Caption Generator (pipeline.py): generate_caption_and_hashtags          *)
(***************************************************************************)
\* {"caption": f"Check out this amazing short! Theme: {theme}", "hashtags": [...]}
FallbackCaptionData(th) ==
  [source |-> "fallback",
   text |-> <<"Check out this amazing short! Theme: ", th>>,
   hashtags |-> <<"#AIReel", "#GenerativeAI", "#Shorts">>]

\* The prompt reads story_data['title'] and the request is sent before the
\* try: a missing title, a failed call and a response without text raise.
\* Only json.loads runs under try/except JSONDecodeError.
CaptionDataRaises(resp, title) == ~title \/ resp.kind \in {"raise", "notext"}

CaptionDataOf(resp, th) ==
  IF resp.kind = "badjson"
  THEN FallbackCaptionData(th)
  ELSE [source |-> "backend", text |-> resp.text, hashtags |-> <<>>]

GenerateCaptionAndHashtags ==
  /\ pc = "p_caption"
  /\ \E resp \in CaptionResponses :
       /\ calls' = (IF has_title THEN Append(calls, CaptionCall) ELSE calls)
       /\ IF CaptionDataRaises(resp, has_title)
          THEN /\ Fatal("caption")
               /\ UNCHANGED caption
          ELSE /\ caption' = CaptionDataOf(resp, theme)
               /\ pc' = "p_post"
               /\ UNCHANGED failVars
  /\ UNCHANGED << configVars, storyVars, i, chainVars, reelVars >>

(***************************************************************************)
(* Social posting stub (pipeline.py): post_reel                            *)
(***************************************************************************)
PostReel ==
  /\ pc = "p_post"
  /\ pc' = "done"
  /\ UNCHANGED << configVars, storyVars, i, chainVars, reelVars, calls, caption,
                  failVars >>

(***************************************************************************)
(* Specification                                                           *)
(***************************************************************************)
Next ==
  \/ Initialize
  \/ GetGeminiClient
  \/ GenerateStoryData
  \/ GenerateCaption
  \/ ImageCall
  \/ ImageExtract
  \/ VideoCall
  \/ VideoExtract
  \/ GatewayError
  \/ ChainReturn
  \/ AssembleScene
  \/ AssembleLoopEnd
  \/ FinalizeReel
  \/ GenerateStoryJson
  \/ GenerateSceneClip
  \/ ScenesDone
  \/ AssembleFinalReel
  \/ GenerateCaptionAndHashtags
  \/ PostReel

Spec == Init /\ [][Next]_vars

(***************************************************************************)
(* Properties                                                              *)
(***************************************************************************)
\* The ways a backend output can carry the URL u: bare or as the first
\* element of a list, as a string, a mapping with url, or a handle with url.
UrlCarriers(u) == {PyStr(u), PyDict(u), PyHandle(u)}

CarriesUrl(out, u) ==
  \/ out \in UrlCarriers(u)
  \/ out.py = "list" /\ out.items # <<>> /\ out.items[1] \in UrlCarriers(u)

\* C1: whatever shape carries the URL u in the Gateway result (bare string,
\* list, mapping with url, handle with url, bare or first in a list), the
\* image step stores u as the scene's character_image_url and goes on to
\* the video call, and the video step stores u as the scene's video_url.
C1_ShapeIndependentUrl ==
  [][ \A u \in URLs :
        /\ (pc = "img_extract" /\ CarriesUrl(char_output.output, u))
             => (scenes'[i].character_image_url = u /\ pc' = "vid_call")
        /\ (pc = "vid_extract" /\ CarriesUrl(clip_output.output, u))
             => (scenes'[i].video_url = u) ]_vars

\* Scene 1 holds its image URL, and the video URL that came as a bare handle.
C1_Witness ==
  /\ pc = "chain"
  /\ i = 2
  /\ clip_output = RunModel(PyHandle("u1"))
  /\ scenes[1].video_url = "u1"
  /\ scenes[1].character_image_url = "u2"

\* An item that yields no URL: an unrecognised shape, or an empty or
\* missing url.
NoUrlItem(x) ==
  x.py \in {"none", "other"} \/ (x.py \in {"str", "dict", "handle"} /\ Falsy(x.url))

NoUrlOutput(out) ==
  \/ out.py = "list" /\ (out.items = <<>> \/ NoUrlItem(out.items[1]))
  \/ NoUrlItem(out)

\* C2: a null or empty output, or a first element of an unrecognised shape
\* or with an empty or missing url, never raises: the image step leaves the
\* scene as it was, the video step marks video_url as None, and in both
\* cases the loop goes on with the next scene.
C2_NoUrlSkipsScene ==
  [][ /\ (pc = "img_extract" /\ NoUrlOutput(char_output.output))
           => (scenes' = scenes /\ i' = i + 1 /\ pc' = "chain" /\ error' = "none")
      /\ (pc = "vid_extract" /\ NoUrlOutput(clip_output.output))
           => (/\ scenes' = [scenes EXCEPT ![i].video_url = None]
               /\ i' = i + 1 /\ pc' = "chain" /\ error' = "none") ]_vars

\* Scene 1 was skipped on a list whose first element has no url, and the
\* loop stands at scene 2.
C2_Witness ==
  /\ pc = "chain"
  /\ i = 2
  /\ Len(scenes) >= 2
  /\ scenes[1] = NewScene(1, "text")
  /\ char_output = RunModel(PyList(<<PyOther, PyStr("u2")>>))
  /\ error = "none"

ChainReturned ==
  /\ program = "main"
  /\ \/ pc \in {"assemble", "finalize", "done"}
     \/ pc = "failed" /\ error \in AssemblyErrors

\* The scenes with a usable video_url, in storyboard order, from scene k on.
RECURSIVE EligibleFrom(_, _)
EligibleFrom(scs, k) ==
  IF k > Len(scs) THEN <<>>
  ELSE IF Falsy(scs[k].video_url) THEN EligibleFrom(scs, k + 1)
  ELSE <<k>> \o EligibleFrom(scs, k + 1)

IsPrefix(a, b) == Len(a) <= Len(b) /\ a = SubSeq(b, 1, Len(a))

\* Exactly one scene has no image URL, every other has image and video URL.
OneImageFailure ==
  \E k \in 1..Len(scenes) :
    /\ Falsy(scenes[k].character_image_url)
    /\ \A j \in (1..Len(scenes)) \ {k} :
         ~Falsy(scenes[j].character_image_url) /\ ~Falsy(scenes[j].video_url)

\* C4: after the chainer returned with exactly one scene k lacking an image
\* URL, exactly N-1 scenes have a video_url, the scene list has its length
\* and order, and the assembler takes up those N-1 scenes and no other, in
\* storyboard order (all of them unless the 120 s cap ends its loop early).
C4_OneFailureLeavesTheRest ==
  (ChainReturned /\ OneImageFailure) =>
    /\ Cardinality({k \in 1..Len(scenes) : ~Falsy(scenes[k].video_url)})
         = Len(scenes) - 1
    /\ Len(scenes) = num_scenes
    /\ \A k \in 1..Len(scenes) : scenes[k].scene_title = k
    /\ IsPrefix(attempted, EligibleFrom(scenes, 1))
    /\ (pc # "assemble" /\ ~ExceedsGlobalCap(total_duration))
         => attempted = EligibleFrom(scenes, 1)

\* Three scenes, the second without image: the assembler took up 1 and 3.
C4_Witness ==
  /\ ChainReturned
  /\ pc = "done"
  /\ Len(scenes) = 3
  /\ Falsy(scenes[2].character_image_url)
  /\ OneImageFailure
  /\ attempted = <<1, 3>>

\* The clips loaded so far: the accepted ones, and the popped one after them
\* (its duration stays in total_duration).
LoadedClipsSoFar ==
  IF total_duration = SumDurations(final_clips)
  THEN final_clips
  ELSE Append(final_clips,
              [scene |-> i, duration |-> total_duration - SumDurations(final_clips)])

\* The longest prefix of clips whose durations sum to at most cap.
RECURSIVE LongestPrefixWithin(_, _)
LongestPrefixWithin(clips, cap) ==
  IF clips = <<>> \/ clips[1].duration > cap THEN <<>>
  ELSE <<clips[1]>> \o LongestPrefixWithin(Tail(clips), cap - clips[1].duration)

\* C5: the accepted clips are the longest prefix of the loaded clips whose
\* durations sum to at most 120 s; a total of exactly 120 is kept; once a
\* clip passed the cap it is dropped and the loop has ended, so that no
\* later scene is loaded or accepted.
C5_LongestPrefixUnderCap ==
  program = "main" =>
    /\ final_clips = LongestPrefixWithin(LoadedClipsSoFar, GlobalCap)
    /\ \A k \in 1..Len(final_clips) :
         final_clips[k].duration <= cfg.max_duration_per_scene_seconds
    /\ total_duration > GlobalCap => pc \notin {"chain", "assemble"}

\* Two clips of 60 s are kept (exactly 120 s), the third was dropped.
C5_Witness ==
  /\ program = "main"
  /\ pc = "done"
  /\ Len(final_clips) = 2
  /\ SumDurations(final_clips) = GlobalCap
  /\ total_duration > GlobalCap

\* C6: the rendered reel lasts the target duration T when the accepted
\* clips together last longer than T, and as long as they do otherwise.
C6_ReelCutToTarget ==
  (program = "main" /\ pc = "done") =>
    LET concatenated == SumDurations(final_clips)
        T == cfg.total_reel_duration_seconds
    IN /\ concatenated > T => reel_duration = T
       /\ concatenated <= T => reel_duration = concatenated

\* Three clips of 5 s with T = 12 give a reel of 12 s.
C6_Witness ==
  /\ program = "main"
  /\ pc = "done"
  /\ cfg.total_reel_duration_seconds = 12
  /\ Len(final_clips) = 3
  /\ \A k \in 1..3 : final_clips[k].duration = 5
  /\ reel_duration = 12

\* The assembler of either program has ended.
AssemblyEnded ==
  \/ pc \in {"done", "p_caption", "p_post"}
  \/ pc = "failed" /\ error \in AssemblyErrors \cup CaptionErrors

\* C7: when no clip was accepted, assembly ends with the "no clips" failure
\* and the reel file is never written, in both assemblers.
C7_NoClipsNoReel ==
  /\ (AssemblyEnded /\ final_clips = <<>>) =>
       (pc = "failed" /\ error = "no_clips" /\ ~file_written)
  /\ file_written => final_clips # <<>>

\* main.py: the only clip loaded is longer than the cap; assembly failed.
C7_Witness ==
  /\ program = "main"
  /\ pc = "failed"
  /\ error = "no_clips"
  /\ total_duration > GlobalCap
  /\ final_clips = <<>>
  /\ ~file_written

\* The tokens of a caption text.
Tokens(text) == {text[k] : k \in 1..Len(text)}

\* C8 as stated: caption generation never raises, and a fallback caption
\* names the theme and carries the fixed hashtags.
C8_CaptionNeverRaises ==
  /\ error \notin CaptionErrors
  /\ caption.source = "fallback" =>
       /\ theme \in Tokens(caption.text)
       /\ \/ {"#AI", "#GenAI"} \subseteq Tokens(caption.text)
          \/ caption.hashtags = <<"#AIReel", "#GenerativeAI", "#Shorts">>

StoryReturned ==
  /\ program = "main"
  /\ pc \notin {"init", "plan"}
  /\ error \notin InitErrors \cup PlanningErrors

\* C10 as stated: a returned storyboard holds every scene received, and its
\* scene list is never empty.
C10_ReturnedScenesNonEmpty ==
  StoryReturned => (Len(scenes) = num_scenes /\ Len(scenes) > 0)

\* The stage a position of either orchestrator belongs to.
StageOf(p) ==
  IF p \in {"plan", "p_plan"} THEN "planning"
  ELSE IF p \in {"chain", "img_extract", "vid_call", "vid_extract", "p_scenes"}
  THEN "enrichment"
  ELSE IF p \in {"assemble", "finalize", "p_assemble"} THEN "assembly"
  ELSE IF p \in {"caption", "p_caption"} THEN "captioning"
  ELSE "none"

\* Place of a stage in the order planning, enrichment, assembly, captioning
\* (initialization before them, posting and the end after them).
StageRank(p) ==
  IF p \in {"init", "p_init"} THEN 0
  ELSE IF StageOf(p) = "planning" THEN 1
  ELSE IF StageOf(p) = "enrichment" THEN 2
  ELSE IF StageOf(p) = "assembly" THEN 3
  ELSE IF StageOf(p) = "captioning" THEN 4
  ELSE 5

\* C11 as stated: the orchestrator starts captioning only when assembly has
\* completed, never goes back to a stage it has left (stages run in the order
\* planning, enrichment, assembly, captioning, each at most once), and
\* enters FAILED only on an initialization, planning or assembly failure.
C11_StagesInOrder ==
  [][ /\ (StageOf(pc') = "captioning" /\ StageOf(pc) # "captioning")
           => StageOf(pc) = "assembly"
      /\ StageRank(pc') >= StageRank(pc)
      /\ (pc' = "failed" /\ pc # "failed")
           => error' \in InitErrors \cup PlanningErrors \cup AssemblyErrors ]_vars

\* C12 as stated: when assembly has ended, on success or on a failure, every
\* clip the assembler opened has been closed.
C12_ClipsReleased == AssemblyEnded => ~clips_open

\* The overlays aligned with the accepted clips: one per clip, for the clip's
\* scene, starting at the total duration of the clips before it and lasting
\* as long as the clip.
AlignedOverlays(clips) ==
  [k \in 1..Len(clips) |->
     [scene |-> clips[k].scene,
      start |-> SumDurations(SubSeq(clips, 1, k - 1)),
      duration |-> clips[k].duration]]

\* assemble_final_reel has built its narration overlays.
OverlaysBuilt ==
  /\ program = "pipeline"
  /\ \/ pc \in {"p_caption", "p_post", "done"}
     \/ pc = "failed" /\ error \in {"render", "caption"}

\* C13 as stated: each narration overlay starts at the cumulative duration
\* of the clips accepted before it and spans its own clip, and a scene that
\* contributed no clip gets no overlay.
C13_OverlaysFollowClips == OverlaysBuilt => overlays = AlignedOverlays(final_clips)

\* A credential the program needs is not set: the language-backend key, or,
\* for main.py, the media-backend token.
MissingCredential ==
  \/ ~env.GEMINI_API_KEY
  \/ program = "main" /\ ~env.REPLICATE_API_TOKEN

\* C14: with a required credential missing the run ends at initialization
\* with one report, and no storyboard, caption, image or video request and
\* no download is ever made.
C14_NoCallWithoutCredentials ==
  MissingCredential =>
    /\ pc \in {"init", "p_init", "failed"}
    /\ pc = "failed" => (error \in InitErrors /\ reports = 1)
    /\ calls = <<>>
    /\ story_calls = 0
    /\ attempted = <<>>
    /\ clip_paths = <<>>
    /\ ~file_written

\* main.py with the key but without the token: failed, nothing was called.
C14_Witness ==
  /\ program = "main"
  /\ env.GEMINI_API_KEY
  /\ ~env.REPLICATE_API_TOKEN
  /\ pc = "failed"
  /\ error = "no_token"
  /\ calls = <<>>

\* The scenes of the accepted clips, in the order of acceptance.
ClipScenes(clips) == [k \in 1..Len(clips) |-> clips[k].scene]

\* A sequence of strictly increasing numbers, and the set of its elements.
IsIncreasing(s) == \A j, k \in 1..Len(s) : j < k => s[j] < s[k]
Elements(s) == {s[k] : k \in 1..Len(s)}

SceneChained(k) ==
  IF pc \in {"chain", "img_extract", "vid_call", "vid_extract"}
       \/ (pc = "failed" /\ error = "gateway")
  THEN k < i
  ELSE ChainReturned

\* C16: a scene whose image extraction found no URL keeps both derived fields
\* unset; a scene whose image URL was found and whose video extraction found
\* no URL holds its character_image_url and a video_url of None, not an
\* absent one; either way the loop stands at the next scene afterwards.
C16_UnsetVersusNull ==
  program = "main" =>
    \A k \in 1..Len(scenes) :
      LET scene == scenes[k] IN
        /\ scene.character_image_url \in URLs \cup {Absent}
        /\ scene.character_image_url = Absent => scene.video_url = Absent
        /\ (SceneChained(k) /\ scene.character_image_url \in URLs)
             => scene.video_url \in URLs \cup {None}
        /\ (pc = "chain" /\ k = i - 1 /\ char_output # NoResult
              /\ NoUrlOutput(char_output.output))
             => scene = NewScene(k, "text")
        /\ (pc = "chain" /\ k = i - 1 /\ clip_output # NoResult
              /\ NoUrlOutput(clip_output.output))
             => (scene.character_image_url \in URLs /\ scene.video_url = None)

\* The chainer returned: scene 1 found no image URL and has no derived field,
\* scene 2 found its image URL and no video URL.
C16_Witness ==
  /\ program = "main"
  /\ pc = "assemble"
  /\ Len(scenes) >= 2
  /\ scenes[1] = NewScene(1, "text")
  /\ scenes[2].character_image_url \in URLs
  /\ scenes[2].video_url = None

\* The run ended on a failure of the planning or of the assembly stage.
FatalStageFailure == pc = "failed" /\ error \in PlanningErrors \cup AssemblyErrors

\* Nothing of a stage after the failed one has happened: after a planning
\* failure the storyboard request is the only call and nothing was
\* downloaded; after an assembly failure of pipeline.py no caption was made.
NoLaterStage ==
  /\ error \in PlanningErrors =>
       (scenes = <<>> /\ Len(calls) = 1 /\ attempted = <<>> /\ clip_paths = <<>>
          /\ caption = NoCaption)
  /\ (error \in AssemblyErrors /\ program = "pipeline") => caption = NoCaption

\* C17 as stated: on a fatal planning or assembly failure no later stage is
\* started, exactly one failure report is emitted and no final reel file is
\* produced.
C17_FatalHaltNoFile ==
  FatalStageFailure => (NoLaterStage /\ reports = 1 /\ ~file_written)

\* The image and video requests among the calls, in the order issued.
IsSceneCall(c) == c.kind \in {"image", "video"}
SceneCallsOf(cs) == SelectSeq(cs, IsSceneCall)

\* The request c comes next in storyboard order after the calls cs: a video
\* request directly follows the image request of its scene, an image request
\* follows no request of its own or of a later scene.
NextInOrder(cs, c) ==
  LET last == cs[Len(cs)] IN
    IF c.kind = "video"
    THEN cs # <<>> /\ last = SceneCall("image", c.scene)
    ELSE cs = <<>> \/ ~IsSceneCall(last) \/ last.scene < c.scene

\* C18: in main.py the image request of a scene precedes its video request
\* and both precede every request of a later scene; a step issues at most one
\* request or download, each after the one before it returned; the assembler
\* takes the scenes up in storyboard order, after the chainer is through.
C18_SequentialInOrder ==
  [][ program = "main" =>
        /\ calls' # calls =>
             /\ attempted' = attempted
             /\ \E c \in {SceneCall(k, i) : k \in {"image", "video"}}
                        \cup {StoryCall(NumScenes(cfg)), CaptionCall} :
                  /\ calls' = Append(calls, c)
                  /\ IsSceneCall(c) => NextInOrder(calls, c)
        /\ attempted' # attempted =>
             /\ calls' = calls
             /\ ChainReturned'
             /\ \E k \in 1..Len(scenes) :
                  /\ attempted' = Append(attempted, k)
                  /\ attempted = <<>> \/ attempted[Len(attempted)] < k ]_vars

\* Two scenes: image 1, video 1, image 2, video 2 were requested in that
\* order, and the assembler took up scene 1, then scene 2.
C18_Witness ==
  /\ program = "main"
  /\ SceneCallsOf(calls)
       = << SceneCall("image", 1), SceneCall("video", 1),
            SceneCall("image", 2), SceneCall("video", 2) >>
  /\ attempted = <<1, 2>>

\* The URL the element x yields on its own: its text or its url when it is a
\* string, a mapping or a handle, and nothing otherwise.
UrlOfItem(x) == IF NoUrlItem(x) THEN None ELSE x.url

\* A backend output that is a list of two or more elements.
LongList(out) == out.py = "list" /\ Len(out.items) >= 2

\* C19: on a list of several elements the extraction step acts on the first
\* element alone. When the first yields no URL the scene is treated as
\* having none (image: scene untouched; video: video_url None), whatever the
\* later elements hold; when it yields a URL that URL is stored, whatever
\* the later elements hold.
C19_FirstElementOnly ==
  [][ /\ (pc = "img_extract" /\ LongList(char_output.output)) =>
           LET first == char_output.output.items[1] IN
             IF NoUrlItem(first)
             THEN scenes' = scenes /\ pc' = "chain"
             ELSE scenes'[i].character_image_url = UrlOfItem(first)
      /\ (pc = "vid_extract" /\ LongList(clip_output.output)) =>
           LET first == clip_output.output.items[1] IN
             IF NoUrlItem(first)
             THEN scenes'[i].video_url = None
             ELSE scenes'[i].video_url = UrlOfItem(first) ]_vars

\* The video result of scene 1 was a list whose first element is a mapping
\* without url and whose second is the usable URL u2: scene 1 holds its image
\* URL and a video_url of None.
C19_Witness ==
  /\ pc = "chain"
  /\ i = 2
  /\ clip_output = RunModel(PyList(<<PyDict(None), PyStr("u2")>>))
  /\ scenes[1].character_image_url = "u1"
  /\ scenes[1].video_url = None

\* C20: the number of scenes the storyboard request of main.py asks for is
\* the floor of total_reel_duration_seconds / max_duration_per_scene_seconds:
\* the one n with n * max <= total < (n + 1) * max. It is fixed by the
\* configuration: it is the same whatever the backend answered and however
\* many scenes the storyboard holds.
C20_RequestedScenesFloor ==
  (program = "main" /\ calls # <<>>) =>
    LET n == calls[1].num_scenes
        total == cfg.total_reel_duration_seconds
        max == cfg.max_duration_per_scene_seconds
    IN /\ calls[1].kind = "story"
       /\ max > 0 => (n * max <= total /\ total < (n + 1) * max)

\* With 12 s in total and 5 s per scene 2 scenes were requested, and the
\* backend returned 3.
C20_Witness ==
  /\ program = "main"
  /\ cfg.total_reel_duration_seconds = 12
  /\ cfg.max_duration_per_scene_seconds = 5
  /\ calls # <<>>
  /\ calls[1] = StoryCall(2)
  /\ Len(scenes) = 3
  /\ num_scenes = 3

\* The scenes a request of the given kind was issued for, and how many
\* requests of that kind were issued for scene k.
CallsFor(kind, k) ==
  {n \in 1..Len(calls) : calls[n].scene = k /\ calls[n].kind = kind}
ScenesCalled(kind) == {k \in 1..Len(scenes) : CallsFor(kind, k) # {}}

\* The scenes the chainer's loop has reached: all up to i while it runs or
\* where a request raised, none before it starts, all once it has returned.
ScenesReached ==
  IF pc \in {"img_extract", "vid_call", "vid_extract"}
       \/ (pc = "failed" /\ error = "gateway")
  THEN 1..i
  ELSE IF pc = "chain" THEN 1..(i - 1)
  ELSE IF ChainReturned THEN 1..Len(scenes)
  ELSE {}

\* C21: in main.py, during and after the chainer, a scene with a video_url
\* has a character_image_url; a video request was issued only for scenes
\* whose image URL is stored, at most once each, so that video requests never
\* outnumber the scenes with an image URL; and exactly one image request was
\* issued for each scene reached, none for any other.
C21_VideoImpliesImage ==
  program = "main" =>
    \A k \in 1..Len(scenes) :
      LET images == CallsFor("image", k)
          videos == CallsFor("video", k)
          has_image == ~Falsy(scenes[k].character_image_url)
      IN  /\ ~Falsy(scenes[k].video_url) => has_image
          /\ Cardinality(images) = (IF k \in ScenesReached THEN 1 ELSE 0)
          /\ Cardinality(videos) <= 1
          /\ videos # {} =>
                /\ has_image
                /\ \A n \in videos : \E m \in images : m < n

\* Three scenes, chainer returned: scene 2 found no image URL, so three
\* image requests and two video requests were issued, and scene 2 has neither
\* derived field.
C21_Witness ==
  /\ program = "main"
  /\ pc = "assemble"
  /\ Len(scenes) = 3
  /\ ScenesCalled("image") = {1, 2, 3}
  /\ ScenesCalled("video") = {1, 3}
  /\ scenes[2] = NewScene(2, "text")
  /\ ~Falsy(scenes[1].video_url)
  /\ scenes[3].video_url = None

====
